---- MODULE Spec2Model ----
(***************************************************************************)
(* Polymarket smart-money analyzer: the wallet evaluator (scorer.py,       *)
(* score_wallet) and the concurrent evaluation pipeline (analyzer.py,      *)
(* run_analysis with its worker task _fetch_and_score_wallet).             *)
(*                                                                         *)
(* Money amounts are whole currency units.  Composite scores are carried   *)
(* in ten-thousandths (score_wallet rounds them to 4 decimals).            *)
(***************************************************************************)
EXTENDS Integers, Sequences, FiniteSets, TLC

VARIABLES
    pc,             \* position of run_analysis
    min_profit,     \* argument of run_analysis
    market_resp,    \* what fetch_market did in this run
    trades_resp,    \* what fetch_all_trades / build_positions did in this run
    wallet_items,   \* list(raw_positions.items()), in submission order
    futures,        \* one entry per submitted task, indexed like wallet_items
    profiles,       \* run_analysis local: profiles
    wallets_checked,
    dropped_pnl,
    dropped_realized,
    dropped_markets,
    dropped_wins,
    completed,
    pcts,           \* the percent values handed to the progress callback
    result,         \* what run_analysis returned
    sw,             \* a direct call of score_wallet: its arguments and result
    dc,             \* a direct call of detect_clusters: its argument and result
    ag,             \* a direct call of aggregate_signal: its argument and result
    mu              \* the two multipliers score_wallet computes from the stats

vars == <<pc, min_profit, market_resp, trades_resp, wallet_items, futures,
          profiles, wallets_checked, dropped_pnl, dropped_realized,
          dropped_markets, dropped_wins, completed, pcts, result, sw, dc, ag, mu>>

runVars == <<pc, min_profit, market_resp, trades_resp, wallet_items, futures,
             profiles, wallets_checked, dropped_pnl, dropped_realized,
             dropped_markets, dropped_wins, completed, pcts, result>>

-----------------------------------------------------------------------------
(* Bounds of the model *)

\* most holders build_positions returns in one run
MaxWallets == 3

\* most holders in a run whose pool is drained in submission order before the
\* results are collected
MaxHolders == 11

\* most profiles handed to aggregate_signal in a direct call
MaxProfiles == 9

\* most profiles handed to detect_clusters in a direct call
MaxClustered == 5

-----------------------------------------------------------------------------
(* scorer.py: thresholds *)

MIN_TOTAL_PNL == 5000
MIN_REALIZED_PNL == 500
MIN_MARKETS == 5
MIN_CLOSED_WINS == 3

(* analyzer.py *)
CONCURRENT_WORKERS == 10

-----------------------------------------------------------------------------
(* Values *)

\* Python's None, as returned by score_wallet for a rejected wallet
None == [none |-> TRUE]

\* an exception leaving a call
Raised == [raised |-> TRUE]

\* stats = {}  (a failed or empty lookup)
EmptyStats == [k \in {} |-> 0]

\* stats.get(key, default)
StatsGet(stats, key, default) ==
    IF key \in DOMAIN stats THEN stats[key] ELSE default

\* a full stats dictionary as fetch_wallet_stats builds it (the keys the
\* filters read)
Stats(pnl, realized, markets, wins, closed) ==
    [total_pnl |-> pnl, realized_pnl |-> realized, markets_traded |-> markets,
     closed_wins |-> wins, closed_total |-> closed]

-----------------------------------------------------------------------------
(* scorer.py: score_wallet *)

\* effective_realized = realized_pnl if realized_pnl > 0 else pnl * 0.3,
\* in tenths of a currency unit so that the 30% stays exact
effective_realized_x10(stats) ==
    LET pnl          == StatsGet(stats, "total_pnl", 0)
        realized_pnl == StatsGet(stats, "realized_pnl", 0)
    IN  IF realized_pnl > 0 THEN 10 * realized_pnl ELSE 3 * pnl

\* hard_filter with the total-profit gate comparing against the module default
\* MIN_TOTAL_PNL instead of the min_profit argument
hard_filter_default_threshold(stats, min_profit_arg) ==
    LET pnl          == StatsGet(stats, "total_pnl", 0)
        markets      == StatsGet(stats, "markets_traded", 0)
        closed_wins  == StatsGet(stats, "closed_wins", 0)
        closed_total == StatsGet(stats, "closed_total", 0)
    IN  IF pnl < MIN_TOTAL_PNL THEN "pnl"
        ELSE IF effective_realized_x10(stats) < 10 * MIN_REALIZED_PNL THEN "realized"
        ELSE IF markets < MIN_MARKETS THEN "markets"
        ELSE IF closed_total > 0 /\ closed_wins < MIN_CLOSED_WINS THEN "wins"
        ELSE "none"

\* hard_filter with the closed-wins gate applied whatever closed_total is
hard_filter_wins_unguarded(stats, min_profit_arg) ==
    LET pnl          == StatsGet(stats, "total_pnl", 0)
        markets      == StatsGet(stats, "markets_traded", 0)
        closed_wins  == StatsGet(stats, "closed_wins", 0)
    IN  IF pnl < min_profit_arg THEN "pnl"
        ELSE IF effective_realized_x10(stats) < 10 * MIN_REALIZED_PNL THEN "realized"
        ELSE IF markets < MIN_MARKETS THEN "markets"
        ELSE IF closed_wins < MIN_CLOSED_WINS THEN "wins"
        ELSE "none"

\* hard_filter letting a wallet without any stats through, the filters applied
\* only to stats that are there
hard_filter_skipped_without_stats(stats, min_profit_arg) ==
    LET pnl          == StatsGet(stats, "total_pnl", 0)
        markets      == StatsGet(stats, "markets_traded", 0)
        closed_wins  == StatsGet(stats, "closed_wins", 0)
        closed_total == StatsGet(stats, "closed_total", 0)
    IN  IF DOMAIN stats = {} THEN "none"
        ELSE IF pnl < min_profit_arg THEN "pnl"
        ELSE IF effective_realized_x10(stats) < 10 * MIN_REALIZED_PNL THEN "realized"
        ELSE IF markets < MIN_MARKETS THEN "markets"
        ELSE IF closed_total > 0 /\ closed_wins < MIN_CLOSED_WINS THEN "wins"
        ELSE "none"

\* hard_filter with the realized-profit gate reading realized_pnl as it is,
\* without the 30% of total_pnl that stands in for a missing realized profit
hard_filter_raw_realized(stats, min_profit_arg) ==
    LET pnl          == StatsGet(stats, "total_pnl", 0)
        realized_pnl == StatsGet(stats, "realized_pnl", 0)
        markets      == StatsGet(stats, "markets_traded", 0)
        closed_wins  == StatsGet(stats, "closed_wins", 0)
        closed_total == StatsGet(stats, "closed_total", 0)
    IN  IF pnl < min_profit_arg THEN "pnl"
        ELSE IF realized_pnl < MIN_REALIZED_PNL THEN "realized"
        ELSE IF markets < MIN_MARKETS THEN "markets"
        ELSE IF closed_total > 0 /\ closed_wins < MIN_CLOSED_WINS THEN "wins"
        ELSE "none"

\* The hard filters of score_wallet in their order: the first one that fails,
\* or "none" when the wallet passes all four.
hard_filter(stats, min_profit_arg) ==
    LET pnl          == StatsGet(stats, "total_pnl", 0)
        markets      == StatsGet(stats, "markets_traded", 0)
        closed_wins  == StatsGet(stats, "closed_wins", 0)
        closed_total == StatsGet(stats, "closed_total", 0)
    IN  IF pnl < min_profit_arg THEN "pnl"
        ELSE IF effective_realized_x10(stats) < 10 * MIN_REALIZED_PNL THEN "realized"
        ELSE IF markets < MIN_MARKETS THEN "markets"
        ELSE IF closed_total > 0 /\ closed_wins < MIN_CLOSED_WINS THEN "wins"
        ELSE "none"

\* score_profit(total_pnl, min_threshold) calls math.sqrt(total_pnl / 200_000),
\* which raises ValueError for a negative total_pnl; it is reached only after
\* the hard filters.
score_profit_raises(stats) ==
    StatsGet(stats, "total_pnl", 0) < 0

\* score_wallet: None when a hard filter fails, otherwise the profile.  The
\* five sub-scores, the hold bonus and the two multipliers are floating-point
\* functions of the position, the stats, the market and the wall clock; their
\* rounded product is the argument final_composite (ten-thousandths, 0..10000),
\* and the rounded conviction sub-score is the argument s_conv (thousandths).
score_wallet(wallet_addr, position, stats, min_profit_arg, final_composite, s_conv) ==
    IF hard_filter(stats, min_profit_arg) # "none" THEN None
    ELSE IF score_profit_raises(stats) THEN Raised
    ELSE [address        |-> wallet_addr,
          outcome        |-> position.outcome,
          composite      |-> final_composite,
          s_conviction   |-> s_conv,
          total_pnl      |-> StatsGet(stats, "total_pnl", 0),
          realized_pnl   |-> StatsGet(stats, "realized_pnl", 0),
          markets_traded |-> StatsGet(stats, "markets_traded", 0),
          closed_wins    |-> StatsGet(stats, "closed_wins", 0),
          closed_total   |-> StatsGet(stats, "closed_total", 0),
          usdc_invested  |-> position.usdc_invested,
          first_trade_ts |-> position.first_trade_ts]

-----------------------------------------------------------------------------
(* Inputs *)

\* positions as build_positions returns them (net_shares > 5, one per wallet)
PositionCases ==
    { [outcome |-> "Yes", usdc_invested |-> 31350, first_trade_ts |-> 0],
      [outcome |-> "No",  usdc_invested |-> 8250,  first_trade_ts |-> 200000] }

\* values of the rounded composite
Composites == {5000, 8000}

\* values of the rounded conviction sub-score: score_conviction returns 0.5
\* for a wallet without an average position size
Convictions == {500}

\* min_profit as a caller may pass it (a float of any sign through the API)
MinProfits == {-1000, 5000, 10000}

\* stats handed to score_wallet directly: every combination of the fields the
\* filters read, and the empty dictionary
ScoreStatsDomain ==
    { Stats(p, r, m, w, c) :
        p \in {-500, 0, 1000, 4000, 6000, 20000},
        r \in {-200, 0, 100, 600},
        m \in {0, 4, 5},
        w \in {0, 2, 3},
        c \in {0, 4} }
    \cup {EmptyStats}

NoCall == [stage |-> "idle"]

-----------------------------------------------------------------------------
(* A direct call of score_wallet *)

ScoreInit ==
    /\ \E st \in ScoreStatsDomain, mp \in MinProfits, pos \in PositionCases,
          c \in Composites, v \in Convictions :
          sw = [stage |-> "called", stats |-> st, min_profit |-> mp,
                position |-> pos, composite |-> c, conviction |-> v]

\* left_at is the hard filter at which the call returned None ("none" when it
\* went past all four)
ScoreWalletCall ==
    /\ sw.stage = "called"
    /\ sw' = [stage      |-> "returned",
              stats      |-> sw.stats,
              min_profit |-> sw.min_profit,
              position   |-> sw.position,
              composite  |-> sw.composite,
              conviction |-> sw.conviction,
              left_at    |-> hard_filter(sw.stats, sw.min_profit),
              out        |-> score_wallet(1, sw.position, sw.stats,
                                          sw.min_profit, sw.composite,
                                          sw.conviction)]


-----------------------------------------------------------------------------
(* analyzer.py: the worker task and the helpers of run_analysis *)

\* what fetch_wallet_stats may return for one wallet: {} (non-200 status, no
\* positions, a failure it absorbs itself) or a full dictionary.  In a full
\* dictionary markets_traded >= 1, closed_wins <= closed_total, and
\* closed_total = 0 implies realized_pnl = 0.
LookupStats ==
    { EmptyStats,
      Stats(20000, 600, 6, 3, 4),
      Stats(20000, 100, 6, 3, 4),
      Stats(20000, 0, 6, 0, 0),
      Stats(20000, 600, 4, 3, 4),
      Stats(20000, 600, 6, 2, 4),
      Stats(-500, 600, 6, 3, 4) }

\* a lookup either raises or returns stats
LookupResponses == {Raised} \cup LookupStats

\* min_profit values of a run: the default, and a negative threshold
RunMinProfits == <<MIN_TOTAL_PNL, -1000>>

\* _fetch_and_score_wallet without the try/except: a lookup that raises makes
\* the task raise
_fetch_and_score_wallet_propagates(wallet, position, resp, min_profit_arg, final_composite, s_conv) ==
    IF resp = Raised THEN Raised
    ELSE LET profile == score_wallet(wallet, position, resp, min_profit_arg,
                                     final_composite, s_conv)
         IN  IF profile = Raised THEN Raised
             ELSE [wallet |-> wallet, profile |-> profile, stats |-> resp]

\* _fetch_and_score_wallet: the try/except around the lookup, then score_wallet.
\* resp is what the lookup did.  The value is what the future holds: Raised
\* when score_wallet raised, else the tuple (wallet, profile, stats).
_fetch_and_score_wallet(wallet, position, resp, min_profit_arg, final_composite, s_conv) ==
    LET stats   == IF resp = Raised THEN EmptyStats ELSE resp
        profile == score_wallet(wallet, position, stats, min_profit_arg,
                                final_composite, s_conv)
    IN  IF profile = Raised THEN Raised
        ELSE [wallet |-> wallet, profile |-> profile, stats |-> stats]

\* the if/elif chain of run_analysis that picks the drop counter to bump
drop_reason(stats, min_profit_arg) ==
    LET pnl         == StatsGet(stats, "total_pnl", 0)
        realized    == StatsGet(stats, "realized_pnl", 0)
        mkts        == StatsGet(stats, "markets_traded", 0)
        closed_wins == StatsGet(stats, "closed_wins", 0)
    IN  IF pnl < min_profit_arg THEN "pnl"
        ELSE IF realized < 500 THEN "realized"
        ELSE IF mkts < 5 THEN "markets"
        ELSE IF closed_wins < 3 THEN "wins"
        ELSE "none"

\* _p(msg, pct): the callback sees pct
_p(log, pct) == Append(log, pct)

\* the fraction of completed tasks scaled to the whole bar instead of to the
\* 55 points of the profiling step
progress_pct_full_scale(done, total_holders) ==
    30 + (done * 100) \div total_holders

\* pct = 30 + int((completed / total_holders) * 55).  The whole-number
\* quotient is what the floating-point expression yields at every point where
\* the runs of the model report progress (completed a multiple of 10, or
\* equal to total_holders).
progress_pct(done, total_holders) == 30 + (done * 55) \div total_holders

\* _err that hands back an (empty) profile list next to the failure flag
_err_with_partial(msg) == [success |-> FALSE, error |-> msg, profiles |-> <<>>]

\* _err(msg)
_err(msg) == [success |-> FALSE, error |-> msg]

\* the "no wallets passed" message without the per-filter breakdown
no_wallets_message_plain(checked, d_pnl, d_realized, d_markets, d_wins, mp) ==
    [text            |-> "No wallets passed all filters",
     wallets_checked |-> checked]

\* the message of the "no wallets passed" failure, with what it interpolates
no_wallets_message(checked, d_pnl, d_realized, d_markets, d_wins, mp) ==
    [text             |-> "No wallets passed all filters",
     wallets_checked  |-> checked,
     dropped_pnl      |-> d_pnl,
     min_profit       |-> mp,
     dropped_realized |-> d_realized,
     dropped_markets  |-> d_markets,
     dropped_wins     |-> d_wins]

\* the sort left out: the profiles stay in completion order
sort_skipped(ps) == ps

\* profiles.sort(key=lambda x: x["composite"], reverse=True): a stable sort,
\* profiles of equal composite keep the order they have in the list
RECURSIVE sort_by_composite(_)
sort_by_composite(ps) ==
    IF ps = <<>> THEN <<>>
    ELSE LET init   == sort_by_composite(SubSeq(ps, 1, Len(ps) - 1))
             p      == ps[Len(ps)]
             before == Cardinality({i \in 1..Len(init) :
                                      init[i].composite >= p.composite})
         IN  SubSeq(init, 1, before) \o <<p>> \o SubSeq(init, before + 1, Len(init))

-----------------------------------------------------------------------------
(* scorer.py: detect_clusters *)

CLUSTER_WINDOW_HOURS == 24

\* CLUSTER_VOTE_CAP = 1.5, in halves
CLUSTER_VOTE_CAP_x2 == 3

Abs(x) == IF x < 0 THEN -x ELSE x

\* the element of a one-element set; a value computed once is bound as that
\* element and used under its name
Only(S) == CHOOSE x \in S : TRUE

\* the window taken as a number of hours, the conversion to seconds left out
cluster_window_in_hours == CLUSTER_WINDOW_HOURS

\* window = CLUSTER_WINDOW_HOURS * 3600
cluster_window == CLUSTER_WINDOW_HOURS * 3600

\* a seed kept as a cluster of its own when nobody joined it
cluster_kept_always(cluster) == TRUE

\* "if len(cluster) > 1"
cluster_kept(cluster) == Len(cluster) > 1

\* the inner loop with the window measured from the wallet that joined last
\* instead of from the seed
RECURSIVE cluster_scan_chained(_, _, _, _, _)
cluster_scan_chained(ps, p1, j, cluster, used) ==
    IF j > Len(ps) THEN [cluster |-> cluster, used |-> used]
    ELSE IF ps[j].address \in used
    THEN cluster_scan_chained(ps, p1, j + 1, cluster, used)
    ELSE IF Abs(p1.first_trade_ts - ps[j].first_trade_ts) <= cluster_window
    THEN cluster_scan_chained(ps, ps[j], j + 1, Append(cluster, ps[j].address),
                              used \cup {ps[j].address})
    ELSE cluster_scan_chained(ps, p1, j + 1, cluster, used)

\* the inner loop "for p2 in profiles[i + 1:]" from index j on: p2 joins the
\* cluster of the seed p1 when it is not used yet and entered within the window
\* of p1
RECURSIVE cluster_scan(_, _, _, _, _)
cluster_scan(ps, p1, j, cluster, used) ==
    IF j > Len(ps) THEN [cluster |-> cluster, used |-> used]
    ELSE IF ps[j].address \in used
    THEN cluster_scan(ps, p1, j + 1, cluster, used)
    ELSE IF Abs(p1.first_trade_ts - ps[j].first_trade_ts) <= cluster_window
    THEN cluster_scan(ps, p1, j + 1, Append(cluster, ps[j].address),
                      used \cup {ps[j].address})
    ELSE cluster_scan(ps, p1, j + 1, cluster, used)

\* the outer loop with the inner loop over profiles[i + 2:], the wallet next
\* to the seed left out
RECURSIVE detect_from_skipping_next(_, _, _, _)
detect_from_skipping_next(ps, i, used, clusters) ==
    IF i > Len(ps) THEN clusters
    ELSE IF ps[i].address \in used
    THEN detect_from_skipping_next(ps, i + 1, used, clusters)
    ELSE Only({ IF cluster_kept(r.cluster)
                THEN detect_from_skipping_next(ps, i + 1,
                                               r.used \cup {ps[i].address},
                                               Append(clusters, r.cluster))
                ELSE detect_from_skipping_next(ps, i + 1, r.used, clusters) :
                r \in {cluster_scan(ps, ps[i], i + 2, <<ps[i].address>>, used)} })

\* the outer loop "for i, p1 in enumerate(profiles)" from index i on
RECURSIVE detect_from(_, _, _, _)
detect_from(ps, i, used, clusters) ==
    IF i > Len(ps) THEN clusters
    ELSE IF ps[i].address \in used THEN detect_from(ps, i + 1, used, clusters)
    ELSE Only({ IF cluster_kept(r.cluster)
                THEN detect_from(ps, i + 1, r.used \cup {ps[i].address},
                                 Append(clusters, r.cluster))
                ELSE detect_from(ps, i + 1, r.used, clusters) :
                r \in {cluster_scan(ps, ps[i], i + 1, <<ps[i].address>>, used)} })

\* detect_clusters(profiles): a list of clusters, each a list of addresses
detect_clusters(ps) == detect_from(ps, 1, {}, <<>>)

-----------------------------------------------------------------------------
(* scorer.py: aggregate_signal.  The vote weights are kept exact: composite *)
(* values lie on the 0.1 grid, conviction values on the 0.25 grid and the    *)
(* invested amounts are perfect squares (or 0), so that a raw vote is a      *)
(* whole number of 1/40 and a capped vote a whole number of                  *)
(* 1/(40 * vote_den).  Shares, confidence and rounding are computed on       *)
(* these fractions.                                                          *)

Max(a, b) == IF a >= b THEN a ELSE b

Min(a, b) == IF a <= b THEN a ELSE b

\* the list f[1], ..., f[n], each element computed once
RECURSIVE ListOf(_, _)
ListOf(f, n) == IF n = 0 THEN <<>> ELSE Append(ListOf(f, n - 1), f[n])

RECURSIVE SumSeq(_)
SumSeq(xs) == IF xs = <<>> THEN 0 ELSE xs[1] + SumSeq(Tail(xs))

\* outcome.lower(), for the outcome names of the model
lower(outcome) ==
    IF outcome \in {"Yes", "YES", "yes"} THEN "yes"
    ELSE IF outcome \in {"No", "NO", "no"} THEN "no"
    ELSE IF outcome \in {"Up", "up"} THEN "up"
    ELSE outcome

\* the whole-number square root of n >= 1 by Newton's iteration from r >= it
RECURSIVE sqrt_from(_, _)
sqrt_from(n, r) ==
    LET next == (r + n \div r) \div 2
    IN  IF next >= r THEN r ELSE sqrt_from(n, next)

\* math.sqrt of a perfect square
math_sqrt(n) == IF n = 0 THEN 0 ELSE sqrt_from(n, n)

\* vote_raw(p) = composite * s_conviction * sqrt(max(usdc_invested, 1)),
\* in units of 1/40
vote_raw(p) ==
    (p.composite \div 1000) * (p.s_conviction \div 250)
        * math_sqrt(Max(p.usdc_invested, 1))

\* cluster_map.get(address): the id of the cluster that lists the address
\* (ids count from 1 here), 0 for the None of an address in no cluster
cluster_id(clusters, addr) ==
    LET cids == {c \in 1..Len(clusters) :
                    \E k \in 1..Len(clusters[c]) : clusters[c][k] = addr}
    IN  IF cids = {} THEN 0
        ELSE CHOOSE c \in cids : \A d \in cids : d <= c

\* [vote_raw(p) for p in profiles]
raw_votes(ps) == ListOf([i \in 1..Len(ps) |-> vote_raw(ps[i])], Len(ps))

\* [cluster_map.get(p["address"]) for p in profiles]
cluster_ids(ps, clusters) ==
    ListOf([i \in 1..Len(ps) |-> cluster_id(clusters, ps[i].address)], Len(ps))

\* cluster_votes[cid]: the raw votes of the profiles mapped to cluster cid
cluster_votes(raws, cids, cid) ==
    SumSeq(ListOf([i \in 1..Len(raws) |-> IF cids[i] = cid THEN raws[i] ELSE 0],
                  Len(raws)))

\* cluster_counts[cid]
cluster_counts(cids, cid) == Cardinality({i \in 1..Len(cids) : cids[i] = cid})

\* the denominator that keeps every capped vote whole: twice the product of
\* the counts of the clusters c, c + 1, ..., last
RECURSIVE vote_den_from(_, _, _)
vote_den_from(cids, c, last) ==
    IF c > last THEN 2
    ELSE cluster_counts(cids, c) * vote_den_from(cids, c + 1, last)

vote_den(ps, clusters) ==
    vote_den_from(cluster_ids(ps, clusters), 1, Len(clusters))

\* the value 1.0 in the unit of the capped votes
vote_unit(ps, clusters) == 40 * vote_den(ps, clusters)

\* the cap taken from the cluster total, the division by the member count
\* left out
cluster_cap_of_total(total, count, den) ==
    (total * den * CLUSTER_VOTE_CAP_x2) \div 2

\* avg_single = total / cluster_counts[cid]; cap = avg_single * CLUSTER_VOTE_CAP
\* (total in units of 1/40, the cap in units of 1/(40 * den))
cluster_cap(total, count, den) ==
    (total * den * CLUSTER_VOTE_CAP_x2) \div (2 * count)

\* [vote(p) for p in profiles]: raw * cluster_caps[cid] with
\* cluster_caps[cid] = cap / total if total > 0 else 1.0 for a clustered
\* wallet, raw otherwise
capped_votes(raws, cids, totals, counts, den) ==
    ListOf([i \in 1..Len(raws) |->
               IF cids[i] = 0 THEN raws[i] * den
               ELSE IF totals[cids[i]] > 0
               THEN (raws[i] * cluster_cap(totals[cids[i]], counts[cids[i]], den))
                        \div totals[cids[i]]
               ELSE raws[i] * den],
           Len(raws))

\* the votes of the profiles after the cluster cap, from the raw votes and
\* the totals and counts of the clusters
votes(ps, clusters) ==
    Only({ Only({ capped_votes(raws, cids, totals, counts, den) :
                  totals \in {ListOf([c \in 1..Len(clusters) |->
                                         cluster_votes(raws, cids, c)],
                                     Len(clusters))},
                  counts \in {ListOf([c \in 1..Len(clusters) |->
                                         cluster_counts(cids, c)],
                                     Len(clusters))} }) :
           raws \in {raw_votes(ps)},
           cids \in {cluster_ids(ps, clusters)},
           den  \in {vote_den(ps, clusters)} })

\* sum(vote(p) for p in profiles if p["outcome"].lower() == side)
side_votes(ps, vs, side) ==
    SumSeq(ListOf([i \in 1..Len(ps) |->
                      IF lower(ps[i].outcome) = side THEN vs[i] ELSE 0], Len(ps)))

\* len of the profiles on a side
side_count(ps, side) ==
    Cardinality({i \in 1..Len(ps) : lower(ps[i].outcome) = side})

\* the total floored at 1: max(yes_votes + no_votes, 1)
vote_total_floored(yes, no, unit) == IF yes + no < unit THEN unit ELSE yes + no

\* total = yes_votes + no_votes or 1: the 1 stands in for a sum of exactly 0
vote_total(yes, no, unit) == IF yes + no = 0 THEN unit ELSE yes + no

\* votes / total >= percent / 100
share_at_least(amount, total, percent) == 100 * amount >= percent * total

\* the thresholds the comments of aggregate_signal name as the former ones
\* (70% / 60% / 55%)
dominant_strength_former(yes, no, total) ==
    LET dominant == Max(yes, no)
    IN  IF share_at_least(dominant, total, 70) THEN "STRONG"
        ELSE IF share_at_least(dominant, total, 60) THEN "MODERATE"
        ELSE IF share_at_least(dominant, total, 55) THEN "WEAK"
        ELSE "NONE"

\* strength from dominant_pct = max(yes_pct, no_pct); "NONE" stands for the
\* None of the local variable
dominant_strength(yes, no, total) ==
    LET dominant == Max(yes, no)
    IN  IF share_at_least(dominant, total, 65) THEN "STRONG"
        ELSE IF share_at_least(dominant, total, 57) THEN "MODERATE"
        ELSE IF share_at_least(dominant, total, 52) THEN "WEAK"
        ELSE "NONE"

\* signal; yes_pct > no_pct is yes_votes > no_votes, the total being positive
signal_of(strength, yes, no) ==
    IF strength = "NONE" THEN "NO_CLEAR_SIGNAL"
    ELSE IF yes > no THEN "BUY_YES" ELSE "BUY_NO"

\* top5 = profiles[:5]; top5_yes
top5_yes(ps) ==
    Cardinality({i \in 1..Min(5, Len(ps)) : lower(ps[i].outcome) = "yes"})

\* the wallets on NO among the first five, the other outcomes left out
top5_no_counted(ps) ==
    Cardinality({i \in 1..Min(5, Len(ps)) : lower(ps[i].outcome) = "no"})

\* top5_no = len(top5) - top5_yes
top5_no(ps) == Min(5, Len(ps)) - top5_yes(ps)

\* the label with "Lean" granted from two wallets on
top_label_lean_from_two(ps) ==
    IF top5_yes(ps) >= 4 THEN [text |-> "Strong YES", shown |-> <<top5_yes(ps), 5>>]
    ELSE IF top5_no(ps) >= 4 THEN [text |-> "Strong NO", shown |-> <<top5_no(ps), 5>>]
    ELSE IF top5_yes(ps) >= 2 THEN [text |-> "Lean YES", shown |-> <<top5_yes(ps), 5>>]
    ELSE IF top5_no(ps) >= 2 THEN [text |-> "Lean NO", shown |-> <<top5_no(ps), 5>>]
    ELSE [text |-> "Split", shown |-> <<top5_yes(ps), top5_no(ps)>>]

\* top_label: the f-string "text (a/b)" as its text and the pair <<a, b>> it
\* prints between the brackets
top_label(ps) ==
    IF top5_yes(ps) >= 4 THEN [text |-> "Strong YES", shown |-> <<top5_yes(ps), 5>>]
    ELSE IF top5_no(ps) >= 4 THEN [text |-> "Strong NO", shown |-> <<top5_no(ps), 5>>]
    ELSE IF top5_yes(ps) >= 3 THEN [text |-> "Lean YES", shown |-> <<top5_yes(ps), 5>>]
    ELSE IF top5_no(ps) >= 3 THEN [text |-> "Lean NO", shown |-> <<top5_no(ps), 5>>]
    ELSE [text |-> "Split", shown |-> <<top5_yes(ps), top5_no(ps)>>]

\* cons_bonus: 2.0 if "Strong" in top_label else (1.0 if "Lean" in top_label
\* else 0.0)
cons_bonus(label) ==
    IF label.text \in {"Strong YES", "Strong NO"} THEN 2
    ELSE IF label.text \in {"Lean YES", "Lean NO"} THEN 1
    ELSE 0

\* the confidence without the consensus bonus
confidence_num_no_bonus(yes, no, total, n, bonus) ==
    Min(Abs(yes - no) * Min(n, 15), 10 * total)

\* confidence = min(spread * 10 * n_factor + cons_bonus, 10.0) as the numerator
\* of a fraction over total: spread = |yes - no| / total and
\* 10 * n_factor = 10 * min(n / 10.0, 1.5) = min(n, 15)
confidence_num(yes, no, total, n, bonus) ==
    Min(Abs(yes - no) * Min(n, 15) + bonus * total, 10 * total)

\* round(num / den, 1) in tenths, for num >= 0: the nearest tenth, a tie going
\* to the even one
round_tenths(num, den) ==
    LET q == (10 * num) \div den
        r == (10 * num) % den
    IN  IF 2 * r > den THEN q + 1
        ELSE IF 2 * r < den THEN q
        ELSE IF q % 2 = 0 THEN q ELSE q + 1

\* the whale-dominance check: the first two profiles of the list
whale_warning(ps) ==
    IF Len(ps) >= 2
    THEN LET top == ps[1].usdc_invested
             sec == ps[2].usdc_invested
         IN  IF sec > 0 /\ top >= 3 * sec
             THEN [text |-> "Single whale dominates",
                   ratio_x10 |-> round_tenths(top, sec)]
             ELSE None
    ELSE None

\* the cluster warning: the biggest cluster has 3 members or more
cluster_warning(clusters) ==
    LET sizes == {Len(clusters[c]) : c \in 1..Len(clusters)}
    IN  IF clusters # <<>> /\ \E n \in sizes : n >= 3
        THEN [text |-> "wallets entered within 24h of each other",
              wallets |-> CHOOSE n \in sizes : \A m \in sizes : m <= n]
        ELSE None

\* scorer.py _empty_signal(reason)
_empty_signal(reason) ==
    [signal |-> "NO_CLEAR_SIGNAL", strength |-> "N/A", confidence |-> 0,
     reasoning |-> reason, yes_pct |-> 0, no_pct |-> 0,
     yes_count |-> 0, no_count |-> 0, total_qualified |-> 0,
     top5_consensus |-> "N/A", whale_warning |-> None,
     cluster_warning |-> None, clusters_found |-> 0]

\* the guard lowered to 2 profiles
too_few_below_two(ps) == Len(ps) < 2

\* "if len(profiles) < 3"
too_few(ps) == Len(ps) < 3

\* yes_votes, no_votes and total from the capped votes vs; unit is the value
\* 1.0 in the unit of the votes
side_totals(ps, clusters, vs) ==
    Only({ [clusters |-> clusters, yes |-> yes, no |-> no,
            unit  |-> vote_unit(ps, clusters),
            total |-> vote_total(yes, no, vote_unit(ps, clusters))] :
           yes \in {side_votes(ps, vs, "yes")},
           no  \in {side_votes(ps, vs, "no")} })

\* the clusters and the weighted votes of a list of profiles
vote_tally(ps) ==
    Only({ Only({ side_totals(ps, clusters, vs) : vs \in {votes(ps, clusters)} }) :
           clusters \in {detect_clusters(ps)} })

\* the dictionary aggregate_signal returns for 3 profiles or more, from the
\* tally t.  confidence is in tenths, yes_pct and no_pct in tenths of a
\* percent (each is rounded to one decimal); the reasoning keeps the values
\* the text interpolates, the weighted-vote percent and the average P&L of the
\* top 5 left out.
signal_result(ps, t) ==
    LET label    == top_label(ps)
        strength == dominant_strength(t.yes, t.no, t.total)
        signal   == signal_of(strength, t.yes, t.no)
        whale    == whale_warning(ps)
        linked   == cluster_warning(t.clusters)
        side     == IF t.yes > t.no THEN "YES" ELSE "NO"
    IN  [signal          |-> signal,
         strength        |-> IF strength = "NONE" THEN "N/A" ELSE strength,
         confidence      |-> round_tenths(
                                confidence_num(t.yes, t.no, t.total, Len(ps),
                                               cons_bonus(label)), t.total),
         reasoning       |-> [strength        |-> strength,
                              signal          |-> signal,
                              dominant_side   |-> side,
                              dominant_count  |->
                                  IF side = "YES" THEN side_count(ps, "yes")
                                  ELSE side_count(ps, "no"),
                              qualified       |-> Len(ps),
                              top5            |-> label,
                              whale_warning   |-> whale,
                              cluster_warning |-> linked],
         yes_pct         |-> round_tenths(100 * t.yes, t.total),
         no_pct          |-> round_tenths(100 * t.no, t.total),
         yes_count       |-> side_count(ps, "yes"),
         no_count        |-> side_count(ps, "no"),
         total_qualified |-> Len(ps),
         top5_consensus  |-> label,
         whale_warning   |-> whale,
         cluster_warning |-> linked,
         clusters_found  |-> Len(t.clusters)]

\* aggregate_signal(profiles): the tally is computed once and the result is
\* built from it
aggregate_signal(ps) ==
    IF too_few(ps)
    THEN _empty_signal([text |-> "Only n qualified wallets", n |-> Len(ps)])
    ELSE Only({signal_result(ps, t) : t \in {vote_tally(ps)}})

-----------------------------------------------------------------------------
(* scorer.py: the category and recent-form multipliers *)

\* round(num / den) for den > 0: the nearest whole number, a tie going to the
\* even one
round_div(num, den) ==
    LET q == num \div den
        r == num % den
    IN  IF 2 * r > den THEN q + 1
        ELSE IF 2 * r < den THEN q
        ELSE IF q % 2 = 0 THEN q ELSE q + 1

\* compute_category_multiplier(category_pnl, category_total), in thousandths
\* (the profile keeps round(cat_multiplier, 3)): 1.0 without category data,
\* else 0.85 + 0.40 * ratio with ratio = category_pnl / category_total held
\* between 0 and 1
compute_category_multiplier(category_pnl, category_total) ==
    IF category_total <= 0 \/ category_pnl < 0 THEN 1000
    ELSE 850 + round_div(400 * Max(Min(category_pnl, category_total), 0),
                         category_total)

\* the recent-form multiplier without the boost of a wallet that has recent
\* profit and no history
compute_recent_form_multiplier_neutral_without_history(recent_pnl, historical_pnl) ==
    IF historical_pnl <= 0 THEN 1000
    ELSE IF recent_pnl <= 0 THEN 900
    ELSE 900 + round_div(150 * Min(recent_pnl, 2 * historical_pnl),
                         historical_pnl)

\* compute_recent_form_multiplier(recent_pnl, historical_pnl), in thousandths
\* (the profile keeps round(form_multiplier, 3))
compute_recent_form_multiplier(recent_pnl, historical_pnl) ==
    IF historical_pnl <= 0 /\ recent_pnl <= 0 THEN 1000
    ELSE IF historical_pnl <= 0 /\ recent_pnl > 0 THEN 1100
    ELSE IF recent_pnl <= 0 /\ historical_pnl > 0 THEN 900
    ELSE 900 + round_div(150 * Min(recent_pnl, 2 * historical_pnl),
                         historical_pnl)

\* the keys of the stats the two multipliers are computed from
MultiplierKeys ==
    {"recent_pnl", "historical_pnl", "category_pnl", "category_total"}

\* amounts a key may hold
MultiplierAmounts == {-500, 0, 250, 1000, 3000}

\* stats dictionaries with any of the four keys present or missing
MultiplierStats ==
    UNION { [K -> MultiplierAmounts] : K \in SUBSET MultiplierKeys }

\* score_wallet reads the four keys with a default of 0
MultiplierInit ==
    \E st \in MultiplierStats :
        mu = [stage          |-> "called",
              stats          |-> st,
              recent_pnl     |-> StatsGet(st, "recent_pnl", 0),
              historical_pnl |-> StatsGet(st, "historical_pnl", 0),
              category_pnl   |-> StatsGet(st, "category_pnl", 0),
              category_total |-> StatsGet(st, "category_total", 0)]

\* cat_multiplier and form_multiplier as score_wallet computes them
MultipliersCall ==
    /\ mu.stage = "called"
    /\ mu' = [stage           |-> "returned",
              stats           |-> mu.stats,
              recent_pnl      |-> mu.recent_pnl,
              historical_pnl  |-> mu.historical_pnl,
              category_pnl    |-> mu.category_pnl,
              category_total  |-> mu.category_total,
              cat_multiplier  |->
                  compute_category_multiplier(mu.category_pnl,
                                              mu.category_total),
              form_multiplier |->
                  compute_recent_form_multiplier(mu.recent_pnl,
                                                 mu.historical_pnl)]

-----------------------------------------------------------------------------
(* Direct calls of detect_clusters and of aggregate_signal *)

\* first-trade times (seconds): 24 hours is 86400
ClusterTimestamps == {0, 86400, 86401, 172800, 259200, 400000}

\* a list of profiles with distinct addresses (the keys of the positions
\* dictionary) in any order of entry times; detect_clusters reads address and
\* first_trade_ts only
DetectInit ==
    \E n \in 0..MaxClustered :
        \E f \in [1..n -> ClusterTimestamps] :
            dc = [stage    |-> "called",
                  profiles |-> [i \in 1..n |->
                                   [address |-> i, first_trade_ts |-> f[i]]]]

DetectClustersCall ==
    /\ dc.stage = "called"
    /\ dc' = [stage    |-> "returned",
              profiles |-> dc.profiles,
              out      |-> detect_clusters(dc.profiles)]

\* profiles by composite, highest first: the fields aggregate_signal reads
HighProfiles ==
    << [outcome |-> "Yes", composite |-> 9000, s_conviction |-> 500,
        usdc_invested |-> 900, first_trade_ts |-> 0],
       [outcome |-> "No", composite |-> 9000, s_conviction |-> 500,
        usdc_invested |-> 900, first_trade_ts |-> 86400] >>

MidProfiles ==
    << [outcome |-> "YES", composite |-> 8000, s_conviction |-> 250,
        usdc_invested |-> 100, first_trade_ts |-> 172800],
       [outcome |-> "No", composite |-> 8000, s_conviction |-> 500,
        usdc_invested |-> 0, first_trade_ts |-> 400000] >>

LowProfiles ==
    << [outcome |-> "Up", composite |-> 5000, s_conviction |-> 750,
        usdc_invested |-> 400, first_trade_ts |-> 0],
       [outcome |-> "No", composite |-> 5000, s_conviction |-> 500,
        usdc_invested |-> 900, first_trade_ts |-> 400000] >>

\* the profile at rank i, its address the rank
ranked(i, p) ==
    [address |-> i, outcome |-> p.outcome, composite |-> p.composite,
     s_conviction |-> p.s_conviction, usdc_invested |-> p.usdc_invested,
     first_trade_ts |-> p.first_trade_ts]

\* the argument of aggregate_signal: a list sorted by composite, highest
\* first, as run_analysis passes it
SignalInit ==
    \E a \in 0..MaxProfiles :
      \E b \in 0..(MaxProfiles - a) :
        \E c \in 0..(MaxProfiles - a - b) :
          \E fa \in [1..a -> 1..Len(HighProfiles)],
             fb \in [1..b -> 1..Len(MidProfiles)],
             fc \in [1..c -> 1..Len(LowProfiles)] :
              ag = [stage    |-> "called",
                    profiles |->
                        [i \in 1..(a + b + c) |->
                            IF i <= a THEN ranked(i, HighProfiles[fa[i]])
                            ELSE IF i <= a + b
                            THEN ranked(i, MidProfiles[fb[i - a]])
                            ELSE ranked(i, LowProfiles[fc[i - a - b]])]]

\* the locals clusters, yes_votes, no_votes and total of the call (None when
\* the call returns at the guard) are kept next to the result
AggregateSignalCall ==
    /\ ag.stage = "called"
    /\ \E t \in {IF too_few(ag.profiles) THEN None ELSE vote_tally(ag.profiles)} :
          ag' = [stage    |-> "returned",
                 profiles |-> ag.profiles,
                 locals   |-> t,
                 out      |-> IF too_few(ag.profiles)
                              THEN aggregate_signal(ag.profiles)
                              ELSE signal_result(ag.profiles, t)]

-----------------------------------------------------------------------------
(* analyzer.py: run_analysis as a state machine (use_mock = False: the       *)
(* market, the trades and the stats come from the fetcher)                 *)

NoResult == [pending |-> TRUE]

QueuedFuture == [state |-> "queued", resp |-> None, ret |-> None,
                 yielded |-> FALSE, tally |-> "unseen"]

total_holders == Len(wallet_items)

Wallets == 1..Len(futures)

RunInit ==
    /\ pc = "step1"
    /\ \E i \in 1..Len(RunMinProfits) : min_profit = RunMinProfits[i]
    /\ market_resp = "pending"
    /\ trades_resp = "pending"
    /\ wallet_items = <<>>
    /\ futures = <<>>
    /\ profiles = <<>>
    /\ wallets_checked = 0
    /\ dropped_pnl = 0
    /\ dropped_realized = 0
    /\ dropped_markets = 0
    /\ dropped_wins = 0
    /\ completed = 0
    /\ pcts = <<>>
    /\ result = NoResult

\* the condition_id check left out
market_unresolved_never(resp) == FALSE

\* "not market.get('condition_id')"
market_unresolved(resp) == resp = "no_condition_id"

\* Step 1: market metadata
FetchMarket ==
    /\ pc = "step1"
    /\ \E resp \in {"raised", "no_condition_id", "ok"} :
        /\ market_resp' = resp
        /\ pcts' = _p(pcts, 5)
        /\ IF resp = "raised"
           THEN /\ result' = _err([text |-> "Market fetch failed"])
                /\ pc' = "returned"
           ELSE IF market_unresolved(resp)
           THEN /\ result' = _err([text |-> "Market resolved or not found"])
                /\ pc' = "returned"
           ELSE /\ result' = result
                /\ pc' = "step2"
    /\ UNCHANGED <<min_profit, trades_resp, wallet_items, futures, profiles,
                   wallets_checked, dropped_pnl, dropped_realized,
                   dropped_markets, dropped_wins, completed, sw, dc, ag, mu>>

\* the holder of rank i in the dictionary build_positions returns: sides
\* alternate (the invested amounts are perfect squares, so that the square
\* root aggregate_signal takes of them is exact)
holder_position(i) ==
    IF i % 2 = 1
    THEN [outcome |-> "Yes", usdc_invested |-> 900, first_trade_ts |-> 0]
    ELSE [outcome |-> "No",  usdc_invested |-> 100, first_trade_ts |-> 200000]

\* Step 2: trades and positions; build_positions returns at most `most`
\* holders
FetchTradesUpTo(most) ==
    /\ pc = "step2"
    /\ pcts' = _p(pcts, 15)
    /\ \/ /\ trades_resp' = "raised"
          /\ result' = _err([text |-> "Trades fetch failed"])
          /\ pc' = "returned"
          /\ UNCHANGED wallet_items
       \/ /\ trades_resp' = "no_trades"
          /\ result' = _err([text |-> "No trades found"])
          /\ pc' = "returned"
          /\ UNCHANGED wallet_items
       \/ /\ trades_resp' = "no_holders"
          /\ result' = _err([text |-> "No current holders found after aggregating trades"])
          /\ pc' = "returned"
          /\ UNCHANGED wallet_items
       \/ /\ trades_resp' = "ok"
          /\ \E n \in 1..most :
                wallet_items' = [i \in 1..n |->
                                    [wallet |-> i, position |-> holder_position(i)]]
          /\ result' = result
          /\ pc' = "step3"
    /\ UNCHANGED <<min_profit, market_resp, futures, profiles, wallets_checked,
                   dropped_pnl, dropped_realized, dropped_markets,
                   dropped_wins, completed, sw, dc, ag, mu>>

FetchTrades == FetchTradesUpTo(MaxWallets)

\* Step 3: the counters are cleared and every wallet is submitted to the pool
SubmitAll ==
    /\ pc = "step3"
    /\ pcts' = _p(pcts, 30)
    /\ profiles' = <<>>
    /\ wallets_checked' = 0
    /\ dropped_pnl' = 0
    /\ dropped_realized' = 0
    /\ dropped_markets' = 0
    /\ dropped_wins' = 0
    /\ completed' = 0
    /\ futures' = [i \in 1..Len(wallet_items) |-> QueuedFuture]
    /\ pc' = "collect"
    /\ UNCHANGED <<min_profit, market_resp, trades_resp, wallet_items, result, sw, dc, ag, mu>>

\* A pool thread takes a queued task; at most CONCURRENT_WORKERS tasks run at
\* once.  The task then blocks in the stats lookup.
WorkerStart(w) ==
    /\ w \in Wallets
    /\ futures[w].state = "queued"
    /\ Cardinality({v \in Wallets : futures[v].state = "running"}) < CONCURRENT_WORKERS
    /\ futures' = [futures EXCEPT ![w].state = "running"]
    /\ UNCHANGED <<pc, min_profit, market_resp, trades_resp, wallet_items,
                   profiles, wallets_checked, dropped_pnl, dropped_realized,
                   dropped_markets, dropped_wins, completed, pcts, result, sw, dc, ag, mu>>

\* a task that bumps wallets_checked itself when it completes
WorkerFinishCounting(w) ==
    /\ w \in Wallets
    /\ futures[w].state = "running"
    /\ \E resp \in LookupResponses, c \in Composites, v \in Convictions :
          futures' = [futures EXCEPT
                        ![w].state = "done",
                        ![w].resp = resp,
                        ![w].ret = _fetch_and_score_wallet(
                                       wallet_items[w].wallet,
                                       wallet_items[w].position,
                                       resp, min_profit, c, v)]
    /\ wallets_checked' = wallets_checked + 1
    /\ UNCHANGED <<pc, min_profit, market_resp, trades_resp, wallet_items,
                   profiles, dropped_pnl, dropped_realized,
                   dropped_markets, dropped_wins, completed, pcts, result, sw, dc, ag, mu>>

\* The lookup answers (resp), the task scores the wallet and its future
\* completes
WorkerFinish(w) ==
    /\ w \in Wallets
    /\ futures[w].state = "running"
    /\ \E resp \in LookupResponses, c \in Composites, v \in Convictions :
          futures' = [futures EXCEPT
                        ![w].state = "done",
                        ![w].resp = resp,
                        ![w].ret = _fetch_and_score_wallet(
                                       wallet_items[w].wallet,
                                       wallet_items[w].position,
                                       resp, min_profit, c, v)]
    /\ UNCHANGED <<pc, min_profit, market_resp, trades_resp, wallet_items,
                   profiles, wallets_checked, dropped_pnl, dropped_realized,
                   dropped_markets, dropped_wins, completed, pcts, result, sw, dc, ag, mu>>

\* One iteration of "for future in as_completed(futures)"
Consume(w) ==
    /\ pc = "collect"
    /\ w \in Wallets
    /\ futures[w].state = "done"
    /\ ~futures[w].yielded
    /\ completed' = completed + 1
    /\ pcts' = IF completed' % 10 = 0 \/ completed' = total_holders
               THEN _p(pcts, progress_pct(completed', total_holders))
               ELSE pcts
    /\ IF futures[w].ret = Raised
       THEN /\ futures' = [futures EXCEPT ![w].yielded = TRUE,
                                          ![w].tally = "skipped"]
            /\ UNCHANGED <<wallets_checked, dropped_pnl, dropped_realized,
                           dropped_markets, dropped_wins, profiles>>
       ELSE LET stats   == futures[w].ret.stats
                profile == futures[w].ret.profile
                reason  == drop_reason(stats, min_profit)
            IN  /\ wallets_checked' = wallets_checked + 1
                /\ dropped_pnl' = dropped_pnl + IF reason = "pnl" THEN 1 ELSE 0
                /\ dropped_realized' =
                       dropped_realized + IF reason = "realized" THEN 1 ELSE 0
                /\ dropped_markets' =
                       dropped_markets + IF reason = "markets" THEN 1 ELSE 0
                /\ dropped_wins' = dropped_wins + IF reason = "wins" THEN 1 ELSE 0
                /\ profiles' = IF profile # None THEN Append(profiles, profile)
                               ELSE profiles
                /\ futures' = [futures EXCEPT ![w].yielded = TRUE,
                                              ![w].tally = reason]
    /\ UNCHANGED <<pc, min_profit, market_resp, trades_resp, wallet_items,
                   result, sw, dc, ag, mu>>

\* the loop left as soon as one result has been consumed
AllCollectedEarly ==
    /\ pc = "collect"
    /\ \E w \in Wallets : futures[w].yielded

\* as_completed(futures) is exhausted: every future has been yielded
AllCollected ==
    /\ pc = "collect"
    /\ \A w \in Wallets : futures[w].yielded

\* "if not profiles: return _err(...)"
ReturnNoProfiles ==
    /\ AllCollected
    /\ profiles = <<>>
    /\ result' = _err(no_wallets_message(wallets_checked, dropped_pnl,
                                         dropped_realized, dropped_markets,
                                         dropped_wins, min_profit))
    /\ pc' = "returned"
    /\ UNCHANGED <<min_profit, market_resp, trades_resp, wallet_items, futures,
                   profiles, wallets_checked, dropped_pnl, dropped_realized,
                   dropped_markets, dropped_wins, completed, pcts, sw, dc, ag, mu>>

\* Step 4: rank, aggregate and return the success payload
RankAndSignal ==
    /\ AllCollected
    /\ profiles # <<>>
    /\ \E sorted \in {sort_by_composite(profiles)} :
           /\ profiles' = sorted
           /\ result' = [success  |-> TRUE,
                         market   |-> market_resp,
                         signal   |-> aggregate_signal(sorted),
                         profiles |-> sorted,
                         stats    |-> [total_holders   |-> total_holders,
                                       wallets_checked |-> wallets_checked,
                                       qualified       |-> Len(sorted)],
                         filter_stats |->
                             [dropped_below_pnl      |-> dropped_pnl,
                              dropped_below_realized |-> dropped_realized,
                              dropped_below_markets  |-> dropped_markets,
                              dropped_below_wins     |-> dropped_wins]]
    /\ pcts' = _p(_p(pcts, 90), 100)
    /\ pc' = "returned"
    /\ UNCHANGED <<min_profit, market_resp, trades_resp, wallet_items, futures,
                   wallets_checked, dropped_pnl, dropped_realized,
                   dropped_markets, dropped_wins, completed, sw, dc, ag, mu>>

-----------------------------------------------------------------------------
(* Specifications *)

\* a run of run_analysis
Init ==
    /\ RunInit
    /\ sw = NoCall
    /\ dc = NoCall
    /\ ag = NoCall
    /\ mu = NoCall

Next ==
    \/ FetchMarket
    \/ FetchTrades
    \/ SubmitAll
    \/ \E w \in 1..MaxWallets : WorkerStart(w)
    \/ \E w \in 1..MaxWallets : WorkerFinish(w)
    \/ \E w \in 1..MaxWallets : Consume(w)
    \/ ReturnNoProfiles
    \/ RankAndSignal

Spec == Init /\ [][Next]_vars

\* Runs of up to MaxHolders holders.  A run of more than MaxWallets holders
\* follows one schedule of the pool: the tasks run one after the other in
\* submission order, every lookup but the first wallet's fails, and the
\* consumer receives its first result after the last task has completed; it
\* then receives the results in any order.
LargeRun == Len(wallet_items) > MaxWallets

\* a lookup of the first wallet that returns stats passing every filter
QualifyingStats == Stats(20000, 600, 6, 3, 4)

StartsInOrder(w) ==
    LargeRun => \A v \in 1..(w - 1) : futures[v].state = "done"

PoolDrained ==
    LargeRun => \A v \in Wallets : futures[v].state = "done"

NextManyHolders ==
    \/ FetchMarket
    \/ FetchTradesUpTo(MaxHolders)
    \/ SubmitAll
    \/ \E w \in 1..MaxHolders : WorkerStart(w) /\ StartsInOrder(w)
    \/ \E w \in 1..MaxHolders :
          /\ WorkerFinish(w)
          /\ LargeRun => futures'[w].resp \in
                             IF w = 1 THEN {Raised, QualifyingStats} ELSE {Raised}
    \/ \E w \in 1..MaxHolders : Consume(w) /\ PoolDrained
    \/ ReturnNoProfiles
    \/ RankAndSignal

SpecManyHolders == Init /\ [][NextManyHolders]_vars

\* A run under fair scheduling: every stats lookup eventually returns or
\* raises (fetch_wallet_stats bounds its requests with timeouts), the pool
\* threads run the tasks they are given and the main thread keeps running.
\* No step of a run can be repeated, so weak fairness of the next-state
\* relation as a whole is what these amount to.  The lookups answer with a
\* failure, with an empty dictionary, with stats that pass every filter or
\* with stats that make score_wallet raise.
FairLookupResponses ==
    {Raised, EmptyStats, QualifyingStats, Stats(-500, 600, 6, 3, 4)}

NextFair ==
    \/ FetchMarket
    \/ FetchTrades
    \/ SubmitAll
    \/ \E w \in 1..MaxWallets : WorkerStart(w)
    \/ \E w \in 1..MaxWallets :
          WorkerFinish(w) /\ futures'[w].resp \in FairLookupResponses
    \/ \E w \in 1..MaxWallets : Consume(w)
    \/ ReturnNoProfiles
    \/ RankAndSignal

SpecFair == Init /\ [][NextFair]_vars /\ WF_vars(NextFair)

\* a direct call of score_wallet, the run left idle
InitScore ==
    /\ ScoreInit
    /\ RunInit
    /\ min_profit = 5000
    /\ dc = NoCall
    /\ ag = NoCall
    /\ mu = NoCall

NextScore ==
    /\ ScoreWalletCall
    /\ UNCHANGED <<runVars, dc, ag, mu>>

SpecScore == InitScore /\ [][NextScore]_vars

\* a direct call of detect_clusters, the run left idle
InitClusters ==
    /\ DetectInit
    /\ RunInit
    /\ min_profit = 5000
    /\ sw = NoCall
    /\ ag = NoCall
    /\ mu = NoCall

NextClusters ==
    /\ DetectClustersCall
    /\ UNCHANGED <<runVars, sw, ag, mu>>

SpecClusters == InitClusters /\ [][NextClusters]_vars

\* a direct call of aggregate_signal, the run left idle
InitAggregate ==
    /\ SignalInit
    /\ RunInit
    /\ min_profit = 5000
    /\ sw = NoCall
    /\ dc = NoCall
    /\ mu = NoCall

NextAggregate ==
    /\ AggregateSignalCall
    /\ UNCHANGED <<runVars, sw, dc, mu>>

SpecAggregate == InitAggregate /\ [][NextAggregate]_vars


\* the multipliers of one stats dictionary, the run left idle
InitMultipliers ==
    /\ MultiplierInit
    /\ RunInit
    /\ min_profit = 5000
    /\ sw = NoCall
    /\ dc = NoCall
    /\ ag = NoCall

NextMultipliers ==
    /\ MultipliersCall
    /\ UNCHANGED <<runVars, sw, dc, ag>>

SpecMultipliers == InitMultipliers /\ [][NextMultipliers]_vars

-----------------------------------------------------------------------------
(* Properties *)

\* the run went through the profiling step and returned
ReturnedAfterProfiling == pc = "returned" /\ trades_resp = "ok"

\* the tasks whose result the consumer could unpack
CheckedWallets == {w \in Wallets : futures[w].yielded /\ futures[w].ret # Raised}

\* the tasks whose stats lookup raised
FailedLookups == {w \in Wallets : futures[w].state = "done" /\ futures[w].resp = Raised}

DropReasons == {"pnl", "realized", "markets", "wins"}

\* C1: a wallet whose total_pnl is below min_profit is rejected (None) by
\* score_wallet, whatever its other stats, its position and the composite the
\* scoring would give.
C1_RejectedBelowMinProfit ==
    (sw.stage = "returned" /\ StatsGet(sw.stats, "total_pnl", 0) < sw.min_profit)
        => sw.out = None

\* a wallet below a raised threshold whose every other figure is good
C1_Witness ==
    /\ sw.stage = "returned"
    /\ sw.min_profit = 10000
    /\ sw.stats = Stats(6000, 600, 5, 3, 4)
    /\ sw.out = None

\* the three filters before the closed-wins one, restated on the raw figures
PassesFirstThree(stats, mp) ==
    LET pnl      == StatsGet(stats, "total_pnl", 0)
        realized == StatsGet(stats, "realized_pnl", 0)
    IN  /\ pnl >= mp
        /\ IF realized > 0 THEN realized >= 500 ELSE 3 * pnl >= 5000
        /\ StatsGet(stats, "markets_traded", 0) >= 5

C3_LookupFailureAbsorbed ==
    /\ \A w \in FailedLookups :
          /\ futures[w].ret # Raised
          /\ futures[w].ret.stats = EmptyStats
          /\ futures[w].ret.profile = None
          /\ futures[w].yielded => futures[w].tally \in DropReasons
    /\ ReturnedAfterProfiling =>
          /\ Len(futures) = total_holders
          /\ \A w \in Wallets : futures[w].state = "done" /\ futures[w].yielded
          /\ completed = total_holders
          /\ wallets_checked = Cardinality(CheckedWallets)
          /\ FailedLookups \subseteq CheckedWallets
          /\ dropped_pnl + dropped_realized + dropped_markets + dropped_wins
                >= Cardinality(FailedLookups)

\* a run that returns a success although one lookup raised
C3_Witness ==
    /\ ReturnedAfterProfiling
    /\ result.success
    /\ FailedLookups # {}
    /\ Len(profiles) >= 1

\* C4: run_analysis returns either the failure payload {success: False,
\* error} and nothing else, or the success payload with market, signal,
\* profiles, stats and filter_stats.
C4_FailureOrSuccessPayload ==
    pc = "returned" =>
        \/ /\ DOMAIN result = {"success", "error"}
           /\ result.success = FALSE
        \/ /\ DOMAIN result = {"success", "market", "signal", "profiles",
                               "stats", "filter_stats"}
           /\ result.success = TRUE

\* a failure returned after wallets were evaluated
C4_Witness ==
    /\ pc = "returned"
    /\ completed >= 2
    /\ result.success = FALSE

\* C5: an unresolved market (fetch raised, empty condition_id), no trades or
\* no holders end the run with a failure and no task was ever submitted.
C5_EarlyFailureBeforeSubmission ==
    /\ (market_resp \in {"raised", "no_condition_id"}
        \/ trades_resp \in {"no_trades", "no_holders"})
          => /\ pc = "returned"
             /\ result.success = FALSE
             /\ futures = <<>>
             /\ completed = 0
    /\ futures # <<>> => market_resp = "ok" /\ trades_resp = "ok"

\* the market resolved but no holder is left after aggregating the trades
C5_Witness ==
    /\ pc = "returned"
    /\ market_resp = "ok"
    /\ trades_resp = "no_holders"
    /\ futures = <<>>

\* a message that names how many wallets failed each hard filter
names_breakdown(msg) ==
    {"dropped_pnl", "dropped_realized", "dropped_markets", "dropped_wins"}
        \subseteq DOMAIN msg

\* C6 as stated: with fewer than 3 scored profiles (0, 1 or 2) the run's
\* message (the error of a failure, the reasoning of a no-signal result) names
\* the drop-reason breakdown.
C6_BreakdownBelowThree ==
    (ReturnedAfterProfiling /\ Len(profiles) < 3) =>
        IF result.success
        THEN names_breakdown(result.signal.reasoning)
        ELSE names_breakdown(result.error)

\* C6 amended: with no scored profile the run fails with a message naming the
\* four drop counters; with 1 or 2 scored profiles it succeeds, its signal is
\* the no-signal result whose reasoning only counts the qualified wallets, and
\* the four drop counters are in filter_stats.
C6_BreakdownOnlyWithoutProfiles ==
    ReturnedAfterProfiling =>
        /\ Len(profiles) = 0 =>
              /\ result.success = FALSE
              /\ names_breakdown(result.error)
              /\ result.error.dropped_pnl = dropped_pnl
              /\ result.error.dropped_realized = dropped_realized
              /\ result.error.dropped_markets = dropped_markets
              /\ result.error.dropped_wins = dropped_wins
              /\ result.error.wallets_checked = wallets_checked
        /\ Len(profiles) \in {1, 2} =>
              /\ result.success = TRUE
              /\ result.signal =
                    _empty_signal([text |-> "Only n qualified wallets",
                                   n |-> Len(profiles)])
              /\ ~names_breakdown(result.signal.reasoning)
              /\ result.filter_stats =
                    [dropped_below_pnl      |-> dropped_pnl,
                     dropped_below_realized |-> dropped_realized,
                     dropped_below_markets  |-> dropped_markets,
                     dropped_below_wins     |-> dropped_wins]

\* two scored profiles, one wallet dropped
C6_Witness ==
    /\ ReturnedAfterProfiling
    /\ Len(profiles) = 2
    /\ total_holders = 3
    /\ result.success = TRUE

\* the checked wallets score_wallet rejected at filter f
RejectedAt(f) ==
    {w \in CheckedWallets : hard_filter(futures[w].ret.stats, min_profit) = f}

\* C7 as stated: each drop counter equals the number of checked wallets
\* score_wallet rejected at that hard filter (the first it fails).
C7_CountersMatchFilters ==
    ReturnedAfterProfiling =>
        /\ dropped_pnl = Cardinality(RejectedAt("pnl"))
        /\ dropped_realized = Cardinality(RejectedAt("realized"))
        /\ dropped_markets = Cardinality(RejectedAt("markets"))
        /\ dropped_wins = Cardinality(RejectedAt("wins"))

SortedByComposite(ps) ==
    \A i, j \in 1..Len(ps) : i < j => ps[i].composite >= ps[j].composite

\* C8: in a run that reaches aggregation the profiles handed to
\* aggregate_signal and returned are in non-increasing composite order.
C8_ProfilesSortedDescending ==
    (pc = "returned" /\ result.success) =>
        /\ SortedByComposite(result.profiles)
        /\ result.profiles = profiles
        /\ result.stats.qualified = Len(result.profiles)

\* three profiles of two different composites, the later-submitted one first
C8_Witness ==
    /\ pc = "returned"
    /\ result.success
    /\ Len(result.profiles) = 3
    /\ result.profiles[1].composite > result.profiles[3].composite
    /\ result.profiles[1].address > result.profiles[3].address

\* C9 as stated: profiles of equal composite are returned in submission order.
C9_TiesInSubmissionOrder ==
    (pc = "returned" /\ result.success) =>
        \A i, j \in 1..Len(result.profiles) :
            (i < j /\ result.profiles[i].composite = result.profiles[j].composite)
                => result.profiles[i].address < result.profiles[j].address

\* what evaluating the first k wallets one after the other, in submission
\* order, leaves in the aggregate state
RECURSIVE SequentialCounts(_)
SequentialCounts(k) ==
    IF k = 0
    THEN [wallets_checked |-> 0, dropped_pnl |-> 0, dropped_realized |-> 0,
          dropped_markets |-> 0, dropped_wins |-> 0, completed |-> 0,
          qualified |-> 0]
    ELSE LET prev == SequentialCounts(k - 1)
             ret  == futures[k].ret
         IN  IF ret = Raised
             THEN [prev EXCEPT !.completed = @ + 1]
             ELSE LET pnl      == StatsGet(ret.stats, "total_pnl", 0)
                      realized == StatsGet(ret.stats, "realized_pnl", 0)
                      mkts     == StatsGet(ret.stats, "markets_traded", 0)
                      wins     == StatsGet(ret.stats, "closed_wins", 0)
                      at_pnl   == pnl < min_profit
                      at_real  == ~at_pnl /\ realized < 500
                      at_mkts  == ~at_pnl /\ ~at_real /\ mkts < 5
                      at_wins  == ~at_pnl /\ ~at_real /\ ~at_mkts /\ wins < 3
                  IN  [wallets_checked  |-> prev.wallets_checked + 1,
                       dropped_pnl      |-> prev.dropped_pnl + IF at_pnl THEN 1 ELSE 0,
                       dropped_realized |-> prev.dropped_realized + IF at_real THEN 1 ELSE 0,
                       dropped_markets  |-> prev.dropped_markets + IF at_mkts THEN 1 ELSE 0,
                       dropped_wins     |-> prev.dropped_wins + IF at_wins THEN 1 ELSE 0,
                       completed        |-> prev.completed + 1,
                       qualified        |-> prev.qualified
                                              + IF ret.profile # None THEN 1 ELSE 0]

AggregateCounts ==
    [wallets_checked  |-> wallets_checked,
     dropped_pnl      |-> dropped_pnl,
     dropped_realized |-> dropped_realized,
     dropped_markets  |-> dropped_markets,
     dropped_wins     |-> dropped_wins,
     completed        |-> completed,
     qualified        |-> Len(profiles)]

aggregateVars == <<profiles, wallets_checked, dropped_pnl, dropped_realized,
                   dropped_markets, dropped_wins, completed>>

\* a step of a worker task: a submitted task starts running or completes
TaskStep ==
    \E w \in Wallets : futures'[w].state # futures[w].state

\* the aggregate state while the results are collected: the consumed tasks
\* account for all of it
ConsumedAccount ==
    pc = "collect" =>
        /\ completed = Cardinality({w \in Wallets : futures[w].yielded})
        /\ wallets_checked = Cardinality(CheckedWallets)
        /\ Len(profiles) =
              Cardinality({w \in CheckedWallets : futures[w].ret.profile # None})

\* C10: the worker tasks leave the aggregate state alone, only consumed
\* results are counted, and whatever the interleaving the final counters are
\* those of a sequential evaluation of the same wallets in submission order.
C10_CountersAsSequential ==
    /\ [](ReturnedAfterProfiling => AggregateCounts = SequentialCounts(total_holders))
    /\ []ConsumedAccount
    /\ [][TaskStep => UNCHANGED aggregateVars]_vars

\* two equal-composite profiles returned against their submission order: the
\* later-submitted task was consumed first
C10_Witness ==
    /\ ReturnedAfterProfiling
    /\ result.success
    /\ Len(result.profiles) >= 2
    /\ result.profiles[1].composite = result.profiles[2].composite
    /\ result.profiles[1].address > result.profiles[2].address
    /\ dropped_pnl + dropped_realized + dropped_markets + dropped_wins >= 1


\* C11: in every run, failing or successful, whatever the number of wallets
\* and the order in which the tasks complete, the percent values handed to
\* the progress callback never decrease and each lies between 0 and 100.
C11_ProgressMonotone ==
    /\ \A i \in 1..Len(pcts) : pcts[i] >= 0 /\ pcts[i] <= 100
    /\ \A i \in 1..(Len(pcts) - 1) : pcts[i] <= pcts[i + 1]

\* a successful run of more than 10 holders: progress was reported at the
\* tenth completion and again at the last one
C11_Witness ==
    /\ pc = "returned"
    /\ result.success
    /\ total_holders > 10
    /\ pcts = <<5, 15, 30, progress_pct(10, total_holders), 85, 90, 100>>

\* a step consumes each future at most once: a yielded future stays yielded
\* and completed grows by the number of futures yielded in the step
ConsumedOnce ==
    /\ \A w \in Wallets : futures[w].yielded => futures'[w].yielded
    /\ completed' = completed +
           Cardinality({w \in 1..Len(futures') :
                           /\ futures'[w].yielded
                           /\ w \in Wallets => ~futures[w].yielded})

\* C12: when every stats lookup eventually returns or raises, run_analysis
\* eventually returns; when it returns after the profiling step every
\* submitted task has completed and has been consumed exactly once, so that
\* completed equals total_holders.
C12_RunReturnsAllConsumed ==
    /\ <>(pc = "returned")
    /\ [](ReturnedAfterProfiling =>
            /\ completed = total_holders
            /\ \A w \in Wallets : futures[w].state = "done" /\ futures[w].yielded)
    /\ [][ConsumedOnce]_vars

\* a run returned after profiling several wallets, one of whose tasks raised
\* and one of whose tasks produced a profile
C12_Witness ==
    /\ ReturnedAfterProfiling
    /\ total_holders >= 2
    /\ completed = total_holders
    /\ \E w \in Wallets : futures[w].ret = Raised
    /\ \E w \in Wallets : futures[w].ret # Raised /\ futures[w].ret.profile # None

-----------------------------------------------------------------------------
(* Properties of aggregate_signal and detect_clusters *)

\* aggregate_signal has returned from a direct call
SignalReturned == ag.stage = "returned"

\* C13: called with 0, 1 or 2 profiles, aggregate_signal does not fail and
\* returns the no-signal result: NO_CLEAR_SIGNAL, strength "N/A", confidence
\* 0.0, vote shares and counts zero, no warnings.
C13_FewProfilesNoSignal ==
    (SignalReturned /\ Len(ag.profiles) < 3) =>
        /\ ag.out # Raised
        /\ ag.out.signal = "NO_CLEAR_SIGNAL"
        /\ ag.out.strength = "N/A"
        /\ ag.out.confidence = 0
        /\ ag.out.yes_pct = 0 /\ ag.out.no_pct = 0
        /\ ag.out.yes_count = 0 /\ ag.out.no_count = 0
        /\ ag.out.whale_warning = None
        /\ ag.out.cluster_warning = None

\* two profiles that entered together, both on YES, the first holding 9 times
\* the second: no signal, no warning
C13_Witness ==
    /\ SignalReturned
    /\ Len(ag.profiles) = 2
    /\ \A i \in 1..2 : lower(ag.profiles[i].outcome) = "yes"
    /\ ag.profiles[1].usdc_invested >= 3 * ag.profiles[2].usdc_invested
    /\ ag.profiles[2].usdc_invested > 0
    /\ ag.out.signal = "NO_CLEAR_SIGNAL"

\* the larger of the two weighted votes of a tally
dominant_votes(t) == Max(t.yes, t.no)

ClustersReturned == dc.stage = "returned"

\* the addresses a cluster lists
Members(cluster) == {cluster[k] : k \in 1..Len(cluster)}

\* C15: for profiles with distinct addresses every cluster detect_clusters
\* returns has at least 2 members, all of them addresses of the profiles, and
\* no address is listed twice, neither in two clusters nor inside one.
C15_ClustersDisjointNoSingleton ==
    ClustersReturned =>
        /\ \A c \in 1..Len(dc.out) :
              /\ Len(dc.out[c]) >= 2
              /\ Cardinality(Members(dc.out[c])) = Len(dc.out[c])
              /\ Members(dc.out[c]) \subseteq 1..Len(dc.profiles)
        /\ \A c, d \in 1..Len(dc.out) :
              c # d => Members(dc.out[c]) \cap Members(dc.out[d]) = {}

\* two clusters and a wallet left on its own
C15_Witness ==
    /\ ClustersReturned
    /\ Len(dc.out) = 2
    /\ \E i \in 1..Len(dc.profiles) :
          \A c \in 1..Len(dc.out) : i \notin Members(dc.out[c])

\* the entry times of the profiles i and j are at most secs seconds apart
Within(ps, i, j, secs) ==
    Abs(ps[i].first_trade_ts - ps[j].first_trade_ts) <= secs

\* C16: two or more wallets whose first-trade times all lie inside one 24-hour
\* window (identical times in particular) form exactly one cluster that
\* contains all of them; wallets whose times are pairwise more than 24 hours
\* apart form no cluster.
C16_OneWindowOneCluster ==
    ClustersReturned =>
        LET ps == dc.profiles
            n  == Len(dc.profiles)
        IN  /\ (n >= 2 /\ \A i, j \in 1..n : Within(ps, i, j, 86400)) =>
                  /\ Len(dc.out) = 1
                  /\ Members(dc.out[1]) = 1..n
            /\ (\A i, j \in 1..n : i # j => ~Within(ps, i, j, 86400)) =>
                  dc.out = <<>>

\* three or more wallets in one window, two of them exactly 24 hours apart,
\* in one cluster
C16_Witness ==
    /\ ClustersReturned
    /\ Len(dc.profiles) >= 3
    /\ \A i, j \in 1..Len(dc.profiles) : Within(dc.profiles, i, j, 86400)
    /\ \E i, j \in 1..Len(dc.profiles) : ~Within(dc.profiles, i, j, 86399)
    /\ Len(dc.out) = 1

\* the sum of the votes vs of the profiles mapped to cluster cid
member_votes(vs, cids, cid) ==
    SumSeq(ListOf([i \in 1..Len(vs) |-> IF cids[i] = cid THEN vs[i] ELSE 0],
                  Len(vs)))

\* C17: for every detected cluster the votes of its members after the cap add
\* up to 1.5 times the raw vote total of the cluster divided by its member
\* count, and to no more than the raw total.  (Raw totals are in units of
\* 1/40, votes in units of 1/(40 * den).)
C17_ClusterVotesCapped ==
    (SignalReturned /\ Len(ag.profiles) >= 3) =>
        LET clusters == ag.locals.clusters
            cids     == cluster_ids(ag.profiles, clusters)
            raws     == raw_votes(ag.profiles)
            vs       == votes(ag.profiles, clusters)
            den      == vote_den(ag.profiles, clusters)
        IN  /\ ag.out.clusters_found = Len(clusters)
            /\ \A c \in 1..Len(clusters) :
                  /\ 2 * Len(clusters[c]) * member_votes(vs, cids, c)
                         = 3 * member_votes(raws, cids, c) * den
                  /\ member_votes(vs, cids, c)
                         <= member_votes(raws, cids, c) * den

\* a cluster of two and a cluster of three or more, every member with a
\* positive raw vote
C17_Witness ==
    /\ SignalReturned
    /\ Len(ag.profiles) >= 3
    /\ ag.out.clusters_found >= 2
    /\ \E c, d \in 1..Len(ag.locals.clusters) :
          /\ Len(ag.locals.clusters[c]) = 2
          /\ Len(ag.locals.clusters[d]) >= 3
    /\ \A i \in 1..Len(ag.profiles) : vote_raw(ag.profiles[i]) > 0

\* the largest usdc_invested among the profiles
largest_invested(ps) ==
    CHOOSE x \in {ps[i].usdc_invested : i \in 1..Len(ps)} :
        \A i \in 1..Len(ps) : ps[i].usdc_invested <= x

\* the second-largest usdc_invested: the largest among the other profiles
second_largest_invested(ps) ==
    LET first == CHOOSE i \in 1..Len(ps) :
                     ps[i].usdc_invested = largest_invested(ps)
    IN  CHOOSE x \in {ps[i].usdc_invested : i \in 1..Len(ps) \ {first}} :
            \A i \in 1..Len(ps) \ {first} : ps[i].usdc_invested <= x

\* C18: with 3 profiles or more the whale-dominance warning is raised exactly
\* when the largest usdc_invested among the profiles is at least 3 times the
\* second-largest.
C18_WhaleIffLargestTriple ==
    (SignalReturned /\ Len(ag.profiles) >= 3) =>
        (ag.out.whale_warning # None
            <=> largest_invested(ag.profiles)
                    >= 3 * second_largest_invested(ag.profiles))

\* the number of wallets on YES among the first five profiles
first_five_yes(ps) ==
    Cardinality({i \in 1..Len(ps) : i <= 5 /\ lower(ps[i].outcome) = "yes"})

\* the number of the other wallets among the first five profiles
first_five_other(ps) ==
    Cardinality({i \in 1..Len(ps) : i <= 5 /\ lower(ps[i].outcome) # "yes"})

\* the label text for y wallets on YES and o other wallets in the top five
consensus_text(y, o) ==
    IF y >= 4 THEN "Strong YES"
    ELSE IF o >= 4 THEN "Strong NO"
    ELSE IF y >= 3 THEN "Lean YES"
    ELSE IF o >= 3 THEN "Lean NO"
    ELSE "Split"

\* C19 as stated: the label is Strong from 4 wallets on one side, Lean from 3,
\* Split otherwise, and in every case it is printed as "label (count/5)".
C19_LabelAlwaysOutOfFive ==
    (SignalReturned /\ Len(ag.profiles) >= 3) =>
        /\ ag.out.top5_consensus.text
               = consensus_text(first_five_yes(ag.profiles),
                                first_five_other(ag.profiles))
        /\ ag.out.top5_consensus.shown[2] = 5

\* C19: the label is Strong from 4 wallets on one side of the first five
\* profiles, Lean from 3, Split otherwise; Strong and Lean are printed as
\* "label SIDE (count/5)" with the count of that side, Split is printed as
\* "Split (yes/no)" with the two counts.
C19_TopFiveLabel ==
    (SignalReturned /\ Len(ag.profiles) >= 3) =>
        LET y     == first_five_yes(ag.profiles)
            o     == first_five_other(ag.profiles)
            label == ag.out.top5_consensus
        IN  /\ label.text = consensus_text(y, o)
            /\ label.text \in {"Strong YES", "Lean YES"} => label.shown = <<y, 5>>
            /\ label.text \in {"Strong NO", "Lean NO"} => label.shown = <<o, 5>>
            /\ label.text = "Split" => label.shown = <<y, o>>

\* four profiles, two on each side: "Split (2/2)"
C19_Witness ==
    /\ SignalReturned
    /\ Len(ag.profiles) = 4
    /\ ag.out.top5_consensus.text = "Split"
    /\ ag.out.top5_consensus.shown = <<2, 2>>

\* the bonus of a label text
bonus_of(text) ==
    IF text \in {"Strong YES", "Strong NO"} THEN 2
    ELSE IF text \in {"Lean YES", "Lean NO"} THEN 1
    ELSE 0

\* min(|yes_share - no_share| * 10 * min(n/10, 1.5) + bonus, 10) times the
\* vote total of the tally t
exact_confidence(t, n, bonus) ==
    IF Abs(t.yes - t.no) * n + bonus * t.total <= 10 * t.total /\ n <= 15
    THEN Abs(t.yes - t.no) * n + bonus * t.total
    ELSE IF Abs(t.yes - t.no) * 15 + bonus * t.total <= 10 * t.total /\ n > 15
    THEN Abs(t.yes - t.no) * 15 + bonus * t.total
    ELSE 10 * t.total

\* C20 as stated: the returned confidence (in tenths) is the value of the
\* formula itself, and lies in [0,10].
C20_ConfidenceExact ==
    (SignalReturned /\ Len(ag.profiles) >= 3) =>
        LET t == ag.locals
        IN  /\ ag.out.confidence * t.total
                   = 10 * exact_confidence(t, Len(ag.profiles),
                                           bonus_of(ag.out.top5_consensus.text))
            /\ ag.out.confidence \in 0..100

\* C20: the returned confidence is the value of the formula rounded to one
\* decimal (a tenth at most 0.05 away from it), and lies in [0,10].
C20_ConfidenceRounded ==
    (SignalReturned /\ Len(ag.profiles) >= 3) =>
        LET t     == ag.locals
            exact == exact_confidence(t, Len(ag.profiles),
                                      bonus_of(ag.out.top5_consensus.text))
            off   == Abs(10 * exact - ag.out.confidence * t.total)
        IN  /\ 2 * off <= t.total
            /\ ag.out.confidence \in 0..100

\* a Lean label and a value of the formula that is no whole number of tenths
C20_Witness ==
    /\ SignalReturned
    /\ Len(ag.profiles) >= 3
    /\ bonus_of(ag.out.top5_consensus.text) = 1
    /\ ag.out.confidence \in 11..99
    /\ ag.out.confidence * ag.locals.total
           # 10 * exact_confidence(ag.locals, Len(ag.profiles), 1)

Unclustered ==
    {i \in 1..Len(dc.profiles) :
        \A c \in 1..Len(dc.out) : i \notin Members(dc.out[c])}

\* C29: any two wallets left outside every cluster entered more than 24 hours
\* apart.
C29_UnclusteredFarApart ==
    ClustersReturned =>
        \A i, j \in Unclustered :
            i # j => ~Within(dc.profiles, i, j, 86400)

\* a cluster, and two wallets left outside every cluster
C29_Witness ==
    /\ ClustersReturned
    /\ Len(dc.out) >= 1
    /\ Cardinality(Unclustered) >= 2

\* C26: at the end of every successful run the four drop counters and the
\* number of qualified wallets add up to wallets_checked.
C26_CountersPartitionChecked ==
    (pc = "returned" /\ result.success) =>
        result.filter_stats.dropped_below_pnl
            + result.filter_stats.dropped_below_realized
            + result.filter_stats.dropped_below_markets
            + result.filter_stats.dropped_below_wins
            + result.stats.qualified
        = result.stats.wallets_checked

\* the profiles of the first k tasks in submission order, as a run collects
\* them when the tasks complete in that order
RECURSIVE SubmissionOrderProfiles(_)
SubmissionOrderProfiles(k) ==
    IF k = 0 THEN <<>>
    ELSE IF futures[k].ret # Raised /\ futures[k].ret.profile # None
    THEN Append(SubmissionOrderProfiles(k - 1), futures[k].ret.profile)
    ELSE SubmissionOrderProfiles(k - 1)

\* the fields of a signal that C27 names
SignalFields(sig) ==
    [signal          |-> sig.signal,
     strength        |-> sig.strength,
     yes_pct         |-> sig.yes_pct,
     no_pct          |-> sig.no_pct,
     clusters_found  |-> sig.clusters_found,
     top5_consensus  |-> sig.top5_consensus,
     whale_warning   |-> sig.whale_warning,
     cluster_warning |-> sig.cluster_warning]

\* C27: the signal a successful run returns (direction, strength, vote shares,
\* clusters_found, top-5 label, warnings) is the one the same positions and
\* stats give when the tasks complete in submission order, whatever the
\* completion order of the run was.
C27_SignalIndependentOfCompletionOrder ==
    (pc = "returned" /\ result.success) =>
        SignalFields(result.signal)
            = SignalFields(aggregate_signal(
                  sort_by_composite(SubmissionOrderProfiles(total_holders))))

\* the tasks whose lookup raised or returned empty stats
WithoutStats ==
    {w \in Wallets : /\ futures[w].state = "done"
                     /\ futures[w].resp \in {Raised, EmptyStats}}

\* C28: a wallet whose stats lookup failed or returned nothing is evaluated on
\* empty stats and rejected by score_wallet, for the default min_profit and for
\* a negative one, and is never among the profiles of the run.
C28_NoProfileWithoutStats ==
    /\ \A w \in WithoutStats :
          /\ futures[w].ret # Raised
          /\ futures[w].ret.stats = EmptyStats
          /\ futures[w].ret.profile = None
          /\ \A i \in 1..Len(profiles) : profiles[i].address # w
    /\ (pc = "returned" /\ result.success) =>
          \A w \in WithoutStats :
              \A i \in 1..Len(result.profiles) : result.profiles[i].address # w

\* a successful run with a negative min_profit in which one lookup raised and
\* another returned empty stats
C28_Witness ==
    /\ pc = "returned"
    /\ result.success
    /\ min_profit < 0
    /\ \E w, x \in WithoutStats :
          futures[w].resp = Raised /\ futures[x].resp = EmptyStats

\* the wallet of a direct score_wallet call meets the realized-profit
\* threshold: realized_pnl >= 500 when realized_pnl > 0, else
\* 0.3 * total_pnl >= 500
RealizedEnough(stats) ==
    IF StatsGet(stats, "realized_pnl", 0) > 0
    THEN StatsGet(stats, "realized_pnl", 0) >= 500
    ELSE 3 * StatsGet(stats, "total_pnl", 0) >= 5000

C25_SharesOverFlooredTotal ==
    (SignalReturned /\ Len(ag.profiles) >= 3) =>
        LET t       == ag.locals
            floored == IF t.yes + t.no < t.unit THEN t.unit ELSE t.yes + t.no
        IN  /\ ag.out.yes_pct = round_tenths(100 * t.yes, floored)
            /\ ag.out.no_pct = round_tenths(100 * t.no, floored)

\* C25: each side's share is its vote total divided by the grand total, the
\* grand total being replaced by 1 only when it is exactly 0 (both shares are
\* then 0); for every other grand total, below 1 included, the two reported
\* percentages add up to 100 (within the 0.1 of their rounding).
C25_SharesOverTotalUnlessZero ==
    (SignalReturned /\ Len(ag.profiles) >= 3) =>
        LET t     == ag.locals
            grand == IF t.yes + t.no = 0 THEN t.unit ELSE t.yes + t.no
        IN  /\ ag.out.yes_pct = round_tenths(100 * t.yes, grand)
            /\ ag.out.no_pct = round_tenths(100 * t.no, grand)
            /\ t.yes + t.no = 0 => (ag.out.yes_pct = 0 /\ ag.out.no_pct = 0)
            /\ t.yes + t.no > 0 =>
                   ag.out.yes_pct + ag.out.no_pct \in 999..1001

\* a grand total between 0 and 1, all of it on NO, next to a cluster: the
\* shares are 0% and 100%
C25_Witness ==
    /\ SignalReturned
    /\ Len(ag.profiles) >= 3
    /\ ag.locals.yes + ag.locals.no > 0
    /\ ag.locals.yes + ag.locals.no < ag.locals.unit
    /\ ag.out.clusters_found = 1
    /\ ag.out.yes_pct = 0 /\ ag.out.no_pct = 1000

\* C30: with 5 profiles or more the top-5 label is never "Split" (every
\* profile of the first five that is not on YES counts for NO), so the
\* consensus bonus is at least 1.0 and the returned confidence is at least
\* 1.0, also when the signal is NO_CLEAR_SIGNAL.
C30_NoSplitFromFiveProfiles ==
    (SignalReturned /\ Len(ag.profiles) >= 5) =>
        /\ ag.out.top5_consensus.text # "Split"
        /\ first_five_yes(ag.profiles) + first_five_other(ag.profiles) = 5
        /\ first_five_yes(ag.profiles) < 3 =>
               /\ ag.out.top5_consensus.text \in {"Strong NO", "Lean NO"}
               /\ ag.out.top5_consensus.shown = <<first_five_other(ag.profiles), 5>>
        /\ bonus_of(ag.out.top5_consensus.text) >= 1
        /\ ag.out.confidence >= 10

\* a 50/50 vote split among 5 profiles or more: no clear signal, confidence
\* 1.0, the label "Lean NO" resting on a wallet that is on neither side
C30_Witness ==
    /\ SignalReturned
    /\ Len(ag.profiles) >= 5
    /\ ag.locals.yes = ag.locals.no /\ ag.locals.yes > 0
    /\ ag.out.signal = "NO_CLEAR_SIGNAL"
    /\ ag.out.confidence = 10
    /\ ag.out.top5_consensus.text = "Lean NO"
    /\ Cardinality({i \in 1..5 : lower(ag.profiles[i].outcome) = "no"}) = 2

-----------------------------------------------------------------------------
(* Properties of the multipliers *)

\* the multipliers have been computed
MultipliersReturned == mu.stage = "returned"

\* C21 as stated: each multiplier is exactly 1.0 whenever its denominator
\* (category_total, historical_pnl) is zero or negative, whatever the other
\* argument is.
C21_NeutralWithoutDenominator ==
    MultipliersReturned =>
        /\ mu.category_total <= 0 => mu.cat_multiplier = 1000
        /\ mu.historical_pnl <= 0 => mu.form_multiplier = 1000

\* C21: the category multiplier is exactly 1.0 whenever category_total <= 0,
\* whatever category_pnl is; with historical_pnl <= 0 the recent-form
\* multiplier is exactly 1.0 when recent_pnl <= 0 and exactly 1.10 when
\* recent_pnl > 0.
C21_NeutralOrNewWalletBoost ==
    MultipliersReturned =>
        /\ mu.category_total <= 0 => mu.cat_multiplier = 1000
        /\ (mu.historical_pnl <= 0 /\ mu.recent_pnl <= 0)
               => mu.form_multiplier = 1000
        /\ (mu.historical_pnl <= 0 /\ mu.recent_pnl > 0)
               => mu.form_multiplier = 1100

\* no history and a recent profit, no category total and a category profit
C21_Witness ==
    /\ MultipliersReturned
    /\ mu.historical_pnl <= 0 /\ mu.recent_pnl > 0
    /\ mu.category_total <= 0 /\ mu.category_pnl > 0
    /\ mu.form_multiplier = 1100
    /\ mu.cat_multiplier = 1000

\* the amount under a key is zero or the key is missing
ZeroOrMissing(stats, key) == key \notin DOMAIN stats \/ stats[key] = 0

\* C22: a wallet whose category PnL is zero or missing has the neutral
\* category multiplier 1.0, and a wallet whose recent PnL is zero or missing
\* has the neutral recent-form multiplier 1.0, whatever the other statistics
\* are.
C22_NeutralOnZeroOrMissing ==
    MultipliersReturned =>
        /\ ZeroOrMissing(mu.stats, "category_pnl") => mu.cat_multiplier = 1000
        /\ ZeroOrMissing(mu.stats, "recent_pnl") => mu.form_multiplier = 1000

====
